---- MODULE Spec2Model ----
(***************************************************************************)
(* Model of the table-top radio telescope application:                     *)
(*   - TabletopApp (tabletop_app.py): the calibration session state and    *)
(*     the two button handlers prepare and sky_obs, the latter including   *)
(*     the baseline normalisation;                                         *)
(*   - MockRtlSdr.read_samples and parse_gain (sdr_wrapper.py).            *)
(*                                                                         *)
(* Conventions.  Python's None is NoGain (0) for the optional gain and     *)
(* NoSpectrum (<<>>) for the optional arrays; gains returned by the gain   *)
(* search are positive and arrays returned by the recorder are non-empty,  *)
(* so neither value collides with a present one.  Real numbers are exact   *)
(* fractions <<n, d>> in lowest terms with d > 0; the two IEEE values a    *)
(* division by zero can produce are NaN == <<0, 0>> and PosInf == <<1, 0>>.*)
(***************************************************************************)
EXTENDS Integers, Sequences, FiniteSets

VARIABLES
    optimal_gain,             \* TabletopApp._optimal_gain
    baseline_power_spectrum,  \* TabletopApp._baseline_power_spectrum
    baseline_gain,            \* gain passed to the record call that produced the baseline
    status,                   \* text of the status bar
    plotted,                  \* array handed to plot_power_spectrum_on_axes, NoSpectrum if none
    last,                     \* the last handler call: what it did
    sdr_gain,                 \* MockRtlSdr.gain
    num_samples,              \* argument of the last read_samples call
    read_out,                 \* outcome of the last read_samples call
    gain_str,                 \* argument of the parse_gain call
    parse_out                 \* outcome of the parse_gain call, NotParsed before it

vars == <<optimal_gain, baseline_power_spectrum, baseline_gain, status, plotted, last,
          sdr_gain, num_samples, read_out, gain_str, parse_out>>

app_vars == <<optimal_gain, baseline_power_spectrum, baseline_gain, status, plotted, last>>
read_vars == <<sdr_gain, num_samples, read_out>>
parse_vars == <<gain_str, parse_out>>

----------------------------------------------------------------------------
(* Bounds *)

MaxGain == 2
MaxBins == 2
MaxPower == 2

----------------------------------------------------------------------------
(* Values *)

NoGain == 0
NoSpectrum == <<>>
NaN == <<0, 0>>
PosInf == <<1, 0>>

RECURSIVE GCD(_, _)
GCD(a, b) == IF b = 0 THEN a ELSE GCD(b, a % b)

\* The fraction n/d (n >= 0, d > 0) in lowest terms.
Frac(n, d) == LET g == GCD(n, d) IN <<n \div g, d \div g>>

\* Float division x / y of two non-negative fractions, IEEE results for y = 0.
FDiv(x, y) ==
    IF y[1] = 0
    THEN IF x[1] = 0 THEN NaN ELSE PosInf
    ELSE Frac(x[1] * y[2], x[2] * y[1])

\* Float subtraction x - y of two fractions with x >= y.
FSub(x, y) == Frac(x[1] * y[2] - y[1] * x[2], x[2] * y[2])

FLeq(x, y) == x[1] * y[2] <= y[1] * x[2]

IsFinite(x) == x[2] # 0

\* np.min / np.max of a non-empty array of finite values.
np_min(a) == CHOOSE x \in {a[i] : i \in 1..Len(a)} : \A j \in 1..Len(a) : FLeq(x, a[j])
np_max(a) == CHOOSE x \in {a[i] : i \in 1..Len(a)} : \A j \in 1..Len(a) : FLeq(a[j], x)

----------------------------------------------------------------------------
(* The collaborators of TabletopApp that are imported from gain_search and  *)
(* record_data: what a call can answer.                                     *)

Gains == 1..MaxGain

\* Power spectra: non-empty arrays of strictly positive power values.
Spectra == UNION {[1..n -> 1..MaxPower] : n \in 1..MaxBins}

\* find_optimal_gain: a gain, or "raise".
find_optimal_gain_outcomes == [ok : {TRUE}, gain : Gains] \cup {[ok |-> FALSE, gain |-> NoGain]}

\* record_power_spectrum: a power array, or "raise".
record_power_spectrum_outcomes ==
    [ok : {TRUE}, power : Spectra] \cup {[ok |-> FALSE, power |-> NoSpectrum]}

----------------------------------------------------------------------------
(* Normalisation, sky_obs lines 241-243 *)

\* numpy broadcasting of two one-dimensional shapes: the common length, 0 when the
\* operands cannot be broadcast together (numpy raises ValueError).
BroadcastLen(m, n) ==
    IF m = n THEN m
    ELSE IF m = 1 THEN n
    ELSE IF n = 1 THEN m
    ELSE 0

BroadcastAt(a, i) == IF Len(a) = 1 THEN a[1] ELSE a[i]

\* power_spectrum / self._baseline_power_spectrum (element-wise, broadcast).
TrueDivide(power, baseline) ==
    [i \in 1..BroadcastLen(Len(power), Len(baseline)) |->
        Frac(BroadcastAt(power, i), BroadcastAt(baseline, i))]

\* Mutant: the minimum is not subtracted.
SubtractMin_skipped(h) == h

\* HIspectrum - np.min(HIspectrum)
SubtractMin(h) == [i \in 1..Len(h) |-> FSub(h[i], np_min(h))]

\* HIspectrum / np.max(HIspectrum)
DivideByMax(h) == [i \in 1..Len(h) |-> FDiv(h[i], np_max(h))]

Normalise(power, baseline) == DivideByMax(SubtractMin(TrueDivide(power, baseline)))

----------------------------------------------------------------------------
(* TabletopApp *)

NoCall == [op |-> "init", outcome |-> "none", search |-> "none", records |-> 0,
           record_gain |-> NoGain, power |-> NoSpectrum]

AppInit ==
    /\ optimal_gain = NoGain
    /\ baseline_power_spectrum = NoSpectrum
    /\ baseline_gain = NoGain
    /\ status = "Ready"
    /\ plotted = NoSpectrum
    /\ last = NoCall

\* Mutant: the gain is reset before the search, so a failed search loses it.
prepare_resets_gain(f, r) ==
    /\ plotted' = NoSpectrum
    /\ IF ~f.ok
       THEN /\ status' = "Preparation failed"
            /\ last' = [op |-> "prepare", outcome |-> "caught", search |-> "raised",
                        records |-> 0,
                        record_gain |-> NoGain, power |-> NoSpectrum]
            /\ optimal_gain' = NoGain
            /\ UNCHANGED <<baseline_power_spectrum, baseline_gain>>
       ELSE /\ optimal_gain' = f.gain
            /\ IF ~r.ok
               THEN /\ status' = "Optimal gain found, recording baseline power spectrum ..."
                    /\ last' = [op |-> "prepare", outcome |-> "escaped", search |-> "returned",
                                records |-> 1,
                                record_gain |-> f.gain, power |-> NoSpectrum]
                    /\ UNCHANGED <<baseline_power_spectrum, baseline_gain>>
               ELSE /\ baseline_power_spectrum' = r.power
                    /\ baseline_gain' = f.gain
                    /\ status' = "Preparation complete!"
                    /\ last' = [op |-> "prepare", outcome |-> "complete", search |-> "returned",
                                records |-> 1,
                                record_gain |-> f.gain, power |-> r.power]

\* prepare(): f is the answer of find_optimal_gain, r the answer of
\* record_power_spectrum (consulted only when it is called).
prepare(f, r) ==
    /\ plotted' = NoSpectrum                       \* show_text_on_figure clears the axes
    /\ IF ~f.ok
       THEN \* except Exception: status, return
            /\ status' = "Preparation failed"
            /\ last' = [op |-> "prepare", outcome |-> "caught", search |-> "raised",
                        records |-> 0,
                        record_gain |-> NoGain, power |-> NoSpectrum]
            /\ UNCHANGED <<optimal_gain, baseline_power_spectrum, baseline_gain>>
       ELSE /\ optimal_gain' = f.gain
            /\ IF ~r.ok
               THEN \* record_power_spectrum raises outside any try: the exception
                    \* leaves prepare, the status bar keeps the last message
                    /\ status' = "Optimal gain found, recording baseline power spectrum ..."
                    /\ last' = [op |-> "prepare", outcome |-> "escaped", search |-> "returned",
                                records |-> 1,
                                record_gain |-> f.gain, power |-> NoSpectrum]
                    /\ UNCHANGED <<baseline_power_spectrum, baseline_gain>>
               ELSE /\ baseline_power_spectrum' = r.power
                    /\ baseline_gain' = f.gain
                    /\ status' = "Preparation complete!"
                    /\ last' = [op |-> "prepare", outcome |-> "complete", search |-> "returned",
                                records |-> 1,
                                record_gain |-> f.gain, power |-> r.power]

\* Mutant: a recorded observation replaces the stored baseline.
sky_obs_stores_observation(r) ==
    IF baseline_power_spectrum = NoSpectrum \/ optimal_gain = NoGain
    THEN /\ status' = "Please run the preparation step first!"
         /\ last' = [op |-> "sky_obs", outcome |-> "rejected", search |-> "none", records |-> 0,
                     record_gain |-> NoGain, power |-> NoSpectrum]
         /\ UNCHANGED <<optimal_gain, baseline_power_spectrum, baseline_gain, plotted>>
    ELSE /\ UNCHANGED <<optimal_gain>>
         /\ IF ~r.ok
            THEN /\ status' = "Observation failed"
                 /\ plotted' = NoSpectrum
                 /\ last' = [op |-> "sky_obs", outcome |-> "caught", search |-> "none", records |-> 1,
                             record_gain |-> optimal_gain, power |-> NoSpectrum]
                 /\ UNCHANGED <<baseline_power_spectrum, baseline_gain>>
            ELSE IF BroadcastLen(Len(r.power), Len(baseline_power_spectrum)) = 0
            THEN /\ status' = "Recording sky observation ..."
                 /\ plotted' = NoSpectrum
                 /\ last' = [op |-> "sky_obs", outcome |-> "escaped", search |-> "none", records |-> 1,
                             record_gain |-> optimal_gain, power |-> r.power]
                 /\ UNCHANGED <<baseline_power_spectrum, baseline_gain>>
            ELSE /\ status' = "Observation finished!"
                 /\ plotted' = Normalise(r.power, baseline_power_spectrum)
                 /\ baseline_power_spectrum' = r.power
                 /\ baseline_gain' = optimal_gain
                 /\ last' = [op |-> "sky_obs", outcome |-> "finished", search |-> "none", records |-> 1,
                             record_gain |-> optimal_gain, power |-> r.power]

\* sky_obs(): r is the answer of record_power_spectrum (consulted only when called).
sky_obs(r) ==
    IF baseline_power_spectrum = NoSpectrum \/ optimal_gain = NoGain
    THEN /\ status' = "Please run the preparation step first!"
         /\ last' = [op |-> "sky_obs", outcome |-> "rejected", search |-> "none", records |-> 0,
                     record_gain |-> NoGain, power |-> NoSpectrum]
         /\ UNCHANGED <<optimal_gain, baseline_power_spectrum, baseline_gain, plotted>>
    ELSE /\ UNCHANGED <<optimal_gain, baseline_power_spectrum, baseline_gain>>
         /\ IF ~r.ok
            THEN /\ status' = "Observation failed"
                 /\ plotted' = NoSpectrum          \* show_text_on_figure cleared the axes
                 /\ last' = [op |-> "sky_obs", outcome |-> "caught", search |-> "none", records |-> 1,
                             record_gain |-> optimal_gain, power |-> NoSpectrum]
            ELSE IF BroadcastLen(Len(r.power), Len(baseline_power_spectrum)) = 0
            THEN \* numpy raises ValueError at line 241, outside any try
                 /\ status' = "Recording sky observation ..."
                 /\ plotted' = NoSpectrum
                 /\ last' = [op |-> "sky_obs", outcome |-> "escaped", search |-> "none", records |-> 1,
                             record_gain |-> optimal_gain, power |-> r.power]
            ELSE /\ status' = "Observation finished!"
                 /\ plotted' = Normalise(r.power, baseline_power_spectrum)
                 /\ last' = [op |-> "sky_obs", outcome |-> "finished", search |-> "none", records |-> 1,
                             record_gain |-> optimal_gain, power |-> r.power]

\* clear_figure(), the Clear button.
clear_figure ==
    /\ plotted' = NoSpectrum
    /\ last' = [op |-> "clear_figure", outcome |-> "none", search |-> "none", records |-> 0,
                record_gain |-> NoGain, power |-> NoSpectrum]
    /\ UNCHANGED <<optimal_gain, baseline_power_spectrum, baseline_gain, status>>

Prepare ==
    \E f \in find_optimal_gain_outcomes, r \in record_power_spectrum_outcomes :
        prepare(f, r) /\ UNCHANGED <<read_vars, parse_vars>>

SkyObs ==
    \E r \in record_power_spectrum_outcomes :
        sky_obs(r) /\ UNCHANGED <<read_vars, parse_vars>>

Clear == clear_figure /\ UNCHANGED <<read_vars, parse_vars>>

----------------------------------------------------------------------------
(* MockRtlSdr, sdr_wrapper.py.  A Python number is a fraction <<n, d>>, d > 0  *)
(* (n of either sign, not necessarily in lowest terms): 2.5 is <<5, 2>>.       *)

MaxDen == 10
Span == 3

MAX_READ_SAMPLES == 2^24

\* The values of MockRtlSdr.gain: a number, or the string "auto".
AutoGain == [auto |-> TRUE, value |-> 0]
NumGain(g) == [auto |-> FALSE, value |-> g]

\* int(x): truncation toward zero.
int(x) == IF x[1] >= 0 THEN x[1] \div x[2] ELSE -((-x[1]) \div x[2])

get_gain(gain) == IF gain = AutoGain THEN 1 ELSE gain.value

\* Mutant: the upper limit itself is refused (n >= MAX_READ_SAMPLES).
read_samples_limit_excluded(gain, x) ==
    LET n == int(x) IN
    IF ~(n > 0)
    THEN [kind |-> "ValueError", len |-> 0, scale |-> <<0, 1>>]
    ELSE IF n >= MAX_READ_SAMPLES
    THEN [kind |-> "LibUSBError", len |-> 0, scale |-> <<0, 1>>]
    ELSE [kind |-> "block", len |-> n, scale |-> Frac(get_gain(gain), 100)]

\* read_samples(num_samples) on a device whose gain attribute is `gain`: the
\* exception raised, or the block, given by its length and the scale of its noise.
read_samples(gain, x) ==
    LET n == int(x) IN
    IF ~(n > 0)
    THEN [kind |-> "ValueError", len |-> 0, scale |-> <<0, 1>>]
    ELSE IF n > MAX_READ_SAMPLES
    THEN [kind |-> "LibUSBError", len |-> 0, scale |-> <<0, 1>>]
    ELSE [kind |-> "block", len |-> n, scale |-> Frac(get_gain(gain), 100)]

\* Sample counts within Span of the two limits of the contract, in steps of 1/d.
SampleCounts ==
    UNION {{<<base * d + j, d>> : j \in -(Span * d)..(Span * d)} :
              base \in {0, MAX_READ_SAMPLES}, d \in 1..MaxDen}

ReadInit ==
    /\ sdr_gain = NumGain(1)
    /\ num_samples = <<0, 1>>
    /\ read_out = [kind |-> "none", len |-> 0, scale |-> <<0, 1>>]

\* sdr.gain = g
SetGain ==
    /\ \E g \in {AutoGain} \cup {NumGain(v) : v \in Gains} : sdr_gain' = g
    /\ UNCHANGED <<num_samples, read_out, app_vars, parse_vars>>

ReadSamples ==
    /\ \E x \in SampleCounts :
          /\ num_samples' = x
          /\ read_out' = read_samples(sdr_gain, x)
    /\ UNCHANGED <<sdr_gain, app_vars, parse_vars>>

----------------------------------------------------------------------------
(* parse_gain, sdr_wrapper.py.  A str is a sequence of one-character strings; *)
(* the argument None is NoneArg.                                              *)

MaxLen == 4

NoneArg == <<"None">>

Alphabet == {"a", "u", "t", "o", "n", "3", "5", ".", " ", "-"}

Strings == UNION {[1..n -> Alphabet] : n \in 0..MaxLen}

DigitChars == <<"0", "1", "2", "3", "4", "5", "6", "7", "8", "9">>
IsDigit(c) == \E i \in 1..Len(DigitChars) : DigitChars[i] = c
DigitVal(c) == (CHOOSE i \in 1..Len(DigitChars) : DigitChars[i] = c) - 1

RECURSIVE Strip(_)
Strip(s) ==
    IF s = <<>> THEN s
    ELSE IF Head(s) = " " THEN Strip(Tail(s))
    ELSE IF s[Len(s)] = " " THEN Strip(SubSeq(s, 1, Len(s) - 1))
    ELSE s

RECURSIVE DigitsValue(_)
DigitsValue(ds) ==
    IF ds = <<>> THEN 0
    ELSE DigitsValue(SubSeq(ds, 1, Len(ds) - 1)) * 10 + DigitVal(ds[Len(ds)])

AllDigits(ds) == \A i \in 1..Len(ds) : IsDigit(ds[i])

Negate(x) == <<-x[1], x[2]>>

\* The unsigned part of a float literal: "nan", or digits with at most one point
\* and at least one digit.
float_unsigned(t) ==
    IF t = <<"n", "a", "n">> THEN [ok |-> TRUE, value |-> NaN]
    ELSE LET points == {i \in 1..Len(t) : t[i] = "."} IN
         IF Cardinality(points) > 1 THEN [ok |-> FALSE, value |-> NaN]
         ELSE LET p == IF points = {} THEN Len(t) + 1 ELSE CHOOSE i \in points : TRUE
                  whole == SubSeq(t, 1, p - 1)
                  part == SubSeq(t, p + 1, Len(t))
              IN IF AllDigits(whole) /\ AllDigits(part) /\ Len(whole) + Len(part) > 0
                 THEN [ok |-> TRUE,
                       value |-> Frac(DigitsValue(whole) * 10^Len(part) + DigitsValue(part),
                                      10^Len(part))]
                 ELSE [ok |-> FALSE, value |-> NaN]

\* Python's float(x) for a str x over Alphabet: blanks around the literal are
\* dropped, a sign may lead, the whole of the rest must be a literal.
float(x) ==
    LET t == Strip(x) IN
    IF t # <<>> /\ Head(t) = "-"
    THEN LET u == float_unsigned(Tail(t)) IN
         IF u.ok THEN [ok |-> TRUE, value |-> Negate(u.value)] ELSE u
    ELSE float_unsigned(t)

\* parse_gain(gain_str): what it returns or raises.  An exception carries `text`,
\* the argument as it shows in the message; a returned value carries none.
parse_gain(x) ==
    IF x = <<"a", "u", "t", "o">>
    THEN [kind |-> "auto", value |-> NaN, text |-> <<>>]
    ELSE IF x = NoneArg
    THEN \* float(None) raises TypeError, re-raised with "Invalid gain string: None"
         [kind |-> "TypeError", value |-> NaN, text |-> x]
    ELSE IF float(x).ok
    THEN [kind |-> "float", value |-> float(x).value, text |-> <<>>]
    ELSE \* float raises ValueError "could not convert string to float: '<x>'",
         \* which `except TypeError` does not catch
         [kind |-> "ValueError", value |-> NaN, text |-> x]

NotParsed == [kind |-> "none", value |-> NaN, text |-> <<>>]

ParseInit ==
    /\ gain_str = <<>>
    /\ parse_out = NotParsed

\* A call parse_gain(gain_str) about to be made, for every argument.
ParseInitAny ==
    /\ gain_str \in Strings \cup {NoneArg}
    /\ parse_out = NotParsed

ParseGain ==
    /\ parse_out = NotParsed
    /\ parse_out' = parse_gain(gain_str)
    /\ UNCHANGED <<gain_str, app_vars, read_vars>>

----------------------------------------------------------------------------
(* Specifications *)

Init == AppInit /\ ReadInit /\ ParseInit

\* The application: the buttons Prepare, Observe and Clear, in any order.
Next == Prepare \/ SkyObs \/ Clear

Spec == Init /\ [][Next]_vars

\* The mock device: gain assignments and reads, in any order.
NextRead == SetGain \/ ReadSamples

SpecRead == Init /\ [][NextRead]_vars

\* The gain parser applied to every text.
NextParse == ParseGain

InitParse == AppInit /\ ReadInit /\ ParseInitAny

SpecParse == InitParse /\ [][NextParse]_vars

----------------------------------------------------------------------------
(* Properties *)

Normalised == last.op = "sky_obs" /\ last.outcome = "finished"

\* C1: every observation that gets normalised was recorded at the gain at which
\* the stored baseline it is divided by was recorded.
C1_ObservationAtBaselineGain == Normalised => last.record_gain = baseline_gain

\* C2: the optimal gain is present if and only if the baseline spectrum is present
\* (both absent at start, and after a prepare that failed in either step).
C2_GainIffBaseline ==
    (optimal_gain = NoGain) <=> (baseline_power_spectrum = NoSpectrum)

IsInteger(x) == x[1] % x[2] = 0
HasRead == read_out.kind # "none"

\* C3: for an integer sample count n, read_samples(n) returns a block of length
\* exactly n when 1 <= n <= 2^24, raises ValueError when n <= 0, and raises
\* LibUSBError when n > 2^24.
C3_SampleCountContract ==
    HasRead /\ IsInteger(num_samples) =>
        LET n == num_samples[1] \div num_samples[2] IN
        /\ (1 <= n /\ n <= 2^24) => (read_out.kind = "block" /\ read_out.len = n)
        /\ n <= 0 => read_out.kind = "ValueError"
        /\ n > 2^24 => read_out.kind = "LibUSBError"

\* Witness of C3: reads at the upper limit and one past it have happened.
C3_Witness ==
    /\ HasRead
    /\ num_samples \in {<<2^24, 1>>, <<2^24 + 1, 1>>}
    /\ read_out.kind \in {"block", "LibUSBError"}
    /\ read_out.kind = "block" => read_out.len = 2^24

\* C4: a successful read returns a block whose length equals the requested count
\* exactly, for every numeric count, integer or not.
C4_NoSilentCoercion ==
    read_out.kind = "block" => read_out.len * num_samples[2] = num_samples[1]

\* Text that writes a decimal number: an optionally signed run of digits with at
\* most one point and at least one digit, possibly between blanks.
NumericText(x) ==
    \E i \in 1..Len(x) : \E j \in i..Len(x) :
        /\ \A k \in 1..Len(x) : (k < i \/ k > j) => x[k] = " "
        /\ LET first == IF x[i] = "-" THEN i + 1 ELSE i IN
           /\ \A k \in first..j : IsDigit(x[k]) \/ x[k] = "."
           /\ Cardinality({k \in first..j : x[k] = "."}) <= 1
           /\ \E k \in first..j : IsDigit(x[k])

\* C5: parse_gain returns the automatic sentinel iff its input is exactly "auto";
\* for numeric text it returns the corresponding number ("3.5" gives 3.5); for None
\* and for any non-numeric text it raises a type/format error carrying the text.
C5_ParseGainContract ==
    parse_out # NotParsed =>
        /\ parse_out.kind = "auto" <=> gain_str = <<"a", "u", "t", "o">>
        /\ gain_str = <<"3", ".", "5">> =>
              (parse_out.kind = "float" /\ parse_out.value = <<7, 2>>)
        /\ (gain_str # NoneArg /\ NumericText(gain_str)) =>
              (parse_out.kind = "float" /\ IsFinite(parse_out.value))
        /\ (gain_str = NoneArg
              \/ (~NumericText(gain_str) /\ gain_str # <<"a", "u", "t", "o">>)) =>
              (parse_out.kind \in {"TypeError", "ValueError"} /\ parse_out.text = gain_str)

\* The element-wise ratio a[i]/b[i] of two equal-length arrays is the same in every bin.
ConstantRatio(a, b) == \A i, j \in 1..Len(a) : a[i] * b[j] = a[j] * b[i]

SameLength == last.power # NoSpectrum /\ Len(last.power) = Len(baseline_power_spectrum)

\* C6: when the ratio observation/baseline is the same in every bin, sky_obs does
\* not hand NaN or Inf values to the plot.
C6_DegenerateNotPlotted ==
    (last.op = "sky_obs" /\ SameLength
        /\ ConstantRatio(last.power, baseline_power_spectrum)) =>
        \A i \in 1..Len(plotted) : IsFinite(plotted[i])

\* C7: for equal-length, strictly positive spectra whose ratio is not constant, the
\* normalised result has the same length, all values in [0, 1], the value 0 in the
\* bins of minimum ratio and the value 1 in the bins of maximum ratio.
C7_NormalisedRange ==
    (Normalised /\ SameLength /\ ~ConstantRatio(last.power, baseline_power_spectrum)) =>
        LET p == last.power
            b == baseline_power_spectrum
            n == Len(p)
        IN /\ Len(plotted) = n
           /\ \A i \in 1..n : /\ plotted[i][2] > 0
                              /\ 0 <= plotted[i][1]
                              /\ plotted[i][1] <= plotted[i][2]
           /\ \A i \in 1..n :
                 (\A j \in 1..n : p[i] * b[j] <= p[j] * b[i]) <=> plotted[i] = <<0, 1>>
           /\ \A i \in 1..n :
                 (\A j \in 1..n : p[i] * b[j] >= p[j] * b[i]) <=> plotted[i] = <<1, 1>>
           /\ \E i \in 1..n : plotted[i] = <<0, 1>>
           /\ \E i \in 1..n : plotted[i] = <<1, 1>>

\* Witness of C7: an observation with a non-constant ratio has been normalised.
C7_Witness ==
    Normalised /\ SameLength /\ ~ConstantRatio(last.power, baseline_power_spectrum)

\* C8: normalising an observation against a baseline of a different length fails
\* and yields no output.
C8_MismatchFails ==
    (last.op = "sky_obs" /\ last.power # NoSpectrum
        /\ Len(last.power) # Len(baseline_power_spectrum)) =>
        (last.outcome = "escaped" /\ plotted = NoSpectrum)

Present == optimal_gain # NoGain /\ baseline_power_spectrum # NoSpectrum

\* C9: sky_obs records only if both the optimal gain and the baseline are present
\* at entry; when either is absent it only reports a status message; on every path
\* it leaves the optimal gain and the baseline spectrum unchanged.
C9_SkyObsFrame ==
    [][last'.op = "sky_obs" =>
          /\ optimal_gain' = optimal_gain
          /\ baseline_power_spectrum' = baseline_power_spectrum
          /\ last'.records > 0 => Present
          /\ ~Present => /\ last'.records = 0
                         /\ last'.outcome = "rejected"
                         /\ status' = "Please run the preparation step first!"
                         /\ plotted' = plotted]_vars

\* Witness of C9: an observation has been recorded and normalised.
C9_Witness == Normalised /\ Present /\ last.records = 1

\* C10: if find_optimal_gain raises, prepare ends with the status 'Preparation
\* failed', the exception does not escape, no recording is attempted, and the
\* optimal gain and the baseline keep their values.
C10_FailedSearchKeepsState ==
    [][(last'.op = "prepare" /\ last'.search = "raised") =>
          /\ status' = "Preparation failed"
          /\ last'.outcome = "caught"
          /\ last'.records = 0
          /\ optimal_gain' = optimal_gain
          /\ baseline_power_spectrum' = baseline_power_spectrum]_vars

\* Witness of C10: a gain search failed after an earlier calibration completed.
C10_Witness == last.op = "prepare" /\ last.search = "raised" /\ Present

====
